---- MODULE Spec2Model ----
(***************************************************************************)
(* Model of the virtual filesystem of the OS shell emulator (src/main.py,  *)
(* class VFS): path normalisation, node lookup, import of a ZIP archive    *)
(* and the four commands ls, cd, cat and chmod.                            *)
(*                                                                         *)
(* A Python str is a sequence of one-character strings, a bytes object a   *)
(* sequence of integers 0..255.  The node tree is kept flat: a function    *)
(* from the key path of a node (the sequence of dictionary keys leading to *)
(* it from the root) to the node's own dictionary, whose "children" field  *)
(* holds the keys of the children dictionary in insertion order.           *)
(***************************************************************************)
EXTENDS Integers, Sequences, FiniteSets, TLC

VARIABLES root, current_path, phase, archive, loaded, last,
          npPath, npCur, npOut,
          running, logs, history, script, pc

vars == <<root, current_path, phase, archive, loaded, last,
          npPath, npCur, npOut,
          running, logs, history, script, pc>>

vfsVars == <<root, current_path, phase, archive, loaded, last>>
npVars == <<npPath, npCur, npOut>>
shellVars == <<running, logs, history, script, pc>>

-----------------------------------------------------------------------------
(* Bounds *)

\* longest path string drawn as an input of normalize_path
MaxPathLen == 5
\* most entries of an archive in the import-only specification
MaxEntries == 2

-----------------------------------------------------------------------------
(* Python string helpers *)

StartsWithSlash(s) == Len(s) > 0 /\ s[1] = "/"

EndsWithSlash(s) == Len(s) > 0 /\ s[Len(s)] = "/"

RECURSIVE RStripSlash(_)
RStripSlash(s) ==
    IF EndsWithSlash(s) THEN RStripSlash(SubSeq(s, 1, Len(s) - 1)) ELSE s

RECURSIVE SplitAcc(_, _, _)
SplitAcc(s, cur, acc) ==
    IF s = <<>> THEN Append(acc, cur)
    ELSE IF Head(s) = "/" THEN SplitAcc(Tail(s), <<>>, Append(acc, cur))
    ELSE SplitAcc(Tail(s), Append(cur, Head(s)), acc)

\* s.split("/")
SplitSlash(s) == SplitAcc(s, <<>>, <<>>)

RECURSIVE JoinSlash(_)
\* "/".join(parts)
JoinSlash(parts) ==
    IF parts = <<>> THEN <<>>
    ELSE IF Len(parts) = 1 THEN parts[1]
    ELSE parts[1] \o <<"/">> \o JoinSlash(Tail(parts))

\* a join that forgets the separator
OsPathJoinNoSlash(a, b) == IF StartsWithSlash(b) THEN b ELSE a \o b

\* os.path.join(a, b) of posixpath, for two arguments
OsPathJoin(a, b) ==
    IF StartsWithSlash(b) THEN b
    ELSE IF a = <<>> \/ EndsWithSlash(a) THEN a \o b
    ELSE a \o <<"/">> \o b

-----------------------------------------------------------------------------
(* VFS.normalize_path *)

NotEmptyNorDot(p) == p # <<>> /\ p # <<".">>

\* a resolution that keeps ".." as a name
ResolvePartsKeepsDotDot(parts, resolved) == resolved \o parts

RECURSIVE ResolveParts(_, _)
ResolveParts(parts, resolved) ==
    IF parts = <<>> THEN resolved
    ELSE IF Head(parts) = <<".", ".">>
         THEN ResolveParts(Tail(parts),
                           IF resolved # <<>>
                           THEN SubSeq(resolved, 1, Len(resolved) - 1)
                           ELSE resolved)
         ELSE ResolveParts(Tail(parts), Append(resolved, Head(parts)))

\* a target that joins even an absolute path to the current directory
NormalizeTargetAlwaysJoins(path, cur) ==
    RStripSlash(cur \o <<"/">> \o path)

NormalizeTarget(path, cur) ==
    IF StartsWithSlash(path) THEN path
    ELSE RStripSlash(OsPathJoin(cur, path))

normalize_path(path, cur) ==
    LET target == NormalizeTarget(path, cur)
        parts == SelectSeq(SplitSlash(target), NotEmptyNorDot)
        resolved == ResolveParts(parts, <<>>)
    IN IF resolved # <<>> THEN <<"/">> \o JoinSlash(resolved) ELSE <<"/">>

-----------------------------------------------------------------------------
(* base64.b64encode(content).decode(), base64.b64decode(text) and
   bytes.decode() (UTF-8, strict).  A text is the sequence of its code
   points. *)

B64Char(i) ==
    IF i < 26 THEN 65 + i
    ELSE IF i < 52 THEN 97 + (i - 26)
    ELSE IF i < 62 THEN 48 + (i - 52)
    ELSE IF i = 62 THEN 43 ELSE 47

B64Pad == 61

B64Index(c) ==
    IF c >= 65 /\ c <= 90 THEN c - 65
    ELSE IF c >= 97 /\ c <= 122 THEN c - 97 + 26
    ELSE IF c >= 48 /\ c <= 57 THEN c - 48 + 52
    ELSE IF c = 43 THEN 62
    ELSE IF c = 47 THEN 63
    ELSE -1

RECURSIVE B64Encode(_)
B64Encode(b) ==
    IF Len(b) = 0 THEN <<>>
    ELSE IF Len(b) = 1 THEN
        <<B64Char(b[1] \div 4), B64Char((b[1] % 4) * 16), B64Pad, B64Pad>>
    ELSE IF Len(b) = 2 THEN
        <<B64Char(b[1] \div 4), B64Char((b[1] % 4) * 16 + b[2] \div 16),
          B64Char((b[2] % 16) * 4), B64Pad>>
    ELSE <<B64Char(b[1] \div 4), B64Char((b[1] % 4) * 16 + b[2] \div 16),
           B64Char((b[2] % 16) * 4 + b[3] \div 64), B64Char(b[3] % 64)>>
         \o B64Encode(SubSeq(b, 4, Len(b)))

\* one group of four characters; ok is FALSE where binascii raises
B64Quad(q, isLast) ==
    LET i1 == B64Index(q[1])
        i2 == B64Index(q[2])
        i3 == B64Index(q[3])
        i4 == B64Index(q[4])
    IN IF i1 < 0 \/ i2 < 0 THEN [ok |-> FALSE, bytes |-> <<>>]
       ELSE IF q[3] = B64Pad /\ q[4] = B64Pad /\ isLast
            THEN [ok |-> TRUE, bytes |-> <<i1 * 4 + i2 \div 16>>]
       ELSE IF i3 >= 0 /\ q[4] = B64Pad /\ isLast
            THEN [ok |-> TRUE,
                  bytes |-> <<i1 * 4 + i2 \div 16, (i2 % 16) * 16 + i3 \div 4>>]
       ELSE IF i3 >= 0 /\ i4 >= 0
            THEN [ok |-> TRUE,
                  bytes |-> <<i1 * 4 + i2 \div 16, (i2 % 16) * 16 + i3 \div 4,
                              (i3 % 4) * 64 + i4>>]
       ELSE [ok |-> FALSE, bytes |-> <<>>]

RECURSIVE B64Decode(_)
B64Decode(t) ==
    IF Len(t) = 0 THEN [ok |-> TRUE, bytes |-> <<>>]
    ELSE IF Len(t) < 4 THEN [ok |-> FALSE, bytes |-> <<>>]
    ELSE LET q == B64Quad(SubSeq(t, 1, 4), Len(t) = 4)
             rest == B64Decode(SubSeq(t, 5, Len(t)))
         IN IF q.ok /\ rest.ok
            THEN [ok |-> TRUE, bytes |-> q.bytes \o rest.bytes]
            ELSE [ok |-> FALSE, bytes |-> <<>>]

IsCont(b, i) == i <= Len(b) /\ b[i] >= 128 /\ b[i] <= 191

RECURSIVE Utf8Decode(_)
Utf8Decode(b) ==
    LET bad == [ok |-> FALSE, text |-> <<>>]
        Then(n, cp) ==
            LET rest == Utf8Decode(SubSeq(b, n + 1, Len(b)))
            IN IF rest.ok THEN [ok |-> TRUE, text |-> <<cp>> \o rest.text]
               ELSE bad
    IN IF Len(b) = 0 THEN [ok |-> TRUE, text |-> <<>>]
       ELSE IF b[1] < 128 THEN Then(1, b[1])
       ELSE IF b[1] >= 194 /\ b[1] <= 223 THEN
            IF IsCont(b, 2)
            THEN Then(2, (b[1] - 192) * 64 + (b[2] - 128)) ELSE bad
       ELSE IF b[1] >= 224 /\ b[1] <= 239 THEN
            IF /\ IsCont(b, 2) /\ IsCont(b, 3)
               /\ (b[1] = 224 => b[2] >= 160)
               /\ (b[1] = 237 => b[2] <= 159)
            THEN Then(3, (b[1] - 224) * 4096 + (b[2] - 128) * 64 + (b[3] - 128))
            ELSE bad
       ELSE IF b[1] >= 240 /\ b[1] <= 244 THEN
            IF /\ IsCont(b, 2) /\ IsCont(b, 3) /\ IsCont(b, 4)
               /\ (b[1] = 240 => b[2] >= 144)
               /\ (b[1] = 244 => b[2] <= 143)
            THEN Then(4, (b[1] - 240) * 262144 + (b[2] - 128) * 4096
                         + (b[3] - 128) * 64 + (b[4] - 128))
            ELSE bad
       ELSE bad

-----------------------------------------------------------------------------
(* The node tree *)

Perm644 == 420
Perm755 == 493

Get(n, k, default) == IF k \in DOMAIN n THEN n[k] ELSE default

\* n[k] = v, and n.setdefault(k, ...) when k is missing
SetKey(n, k, v) == [x \in DOMAIN n \cup {k} |-> IF x = k THEN v ELSE n[x]]

InSeq(x, s) == \E i \in 1..Len(s) : s[i] = x

\* the keys of node.get("children", {}), in insertion order
Children(n) == Get(n, "children", <<>>)

IsPrefix(p, q) == Len(p) <= Len(q) /\ SubSeq(q, 1, Len(p)) = p

\* VFS.__init__: self.root
EmptyRoot == [k \in {<<>>} |-> [type |-> "dir", children |-> <<>>]]

NotEmpty(p) == p # <<>>

RECURSIVE Walk(_, _, _)
Walk(tree, at, parts) ==
    IF parts = <<>> THEN [found |-> TRUE, at |-> at]
    ELSE IF InSeq(Head(parts), Children(tree[at]))
         THEN Walk(tree, Append(at, Head(parts)), Tail(parts))
         ELSE [found |-> FALSE, at |-> <<>>]

\* VFS.get_node: the key path of the node reached, found = FALSE for None
get_node(tree, path, cur) ==
    LET p == normalize_path(path, cur)
    IN IF p = <<"/">> THEN [found |-> TRUE, at |-> <<>>]
       ELSE Walk(tree, <<>>, SelectSeq(SplitSlash(p), NotEmpty))

-----------------------------------------------------------------------------
(* VFS.load_from_zip.  An archive is the sequence of its entries (zipfile's
   infolist()), each with its filename, its bytes and whether reading it
   raises (a damaged or encrypted member). *)

\* ZipInfo.is_dir()
IsDirEntry(info) == EndsWithSlash(info.filename)

LastNamed(arch, name) ==
    CHOOSE i \in 1..Len(arch) :
        /\ arch[i].filename = name
        /\ \A j \in (i + 1)..Len(arch) : arch[j].filename # name

\* zf.read(name): the member the archive's name table holds for that name,
\* which is the last entry so named
ZfRead(arch, name) ==
    LET e == arch[LastNamed(arch, name)]
    IN [raised |-> e.unreadable, content |-> e.content]

FileNode(content) ==
    [type |-> "file", content |-> B64Encode(content), permissions |-> Perm644]

\* a directory created with the permission of a file
DirNodeAsFile == [type |-> "dir", children |-> <<>>, permissions |-> Perm644]

DirNode == [type |-> "dir", children |-> <<>>, permissions |-> Perm755]

\* node.setdefault("children", {})[part] = child, node being the one at `at`:
\* whatever hung below the replaced value goes with it
PutChild(tree, at, part, child) ==
    LET key == Append(at, part)
        kids == Children(tree[at])
        parent == SetKey(tree[at], "children",
                         IF InSeq(part, kids) THEN kids ELSE Append(kids, part))
        keep == {k \in DOMAIN tree : ~IsPrefix(key, k)} \cup {key}
    IN [k \in keep |-> IF k = key THEN child
                       ELSE IF k = at THEN parent
                       ELSE tree[k]]

RECURSIVE LoadParts(_, _, _, _, _, _)
\* the loop over enumerate(parts) for one entry (i counts from 1)
LoadParts(tree, node, parts, i, info, arch) ==
    IF i > Len(parts) THEN [root |-> tree, raised |-> FALSE]
    ELSE IF i = Len(parts) /\ ~IsDirEntry(info)
    THEN LET rd == ZfRead(arch, info.filename)
         IN IF rd.raised THEN [root |-> tree, raised |-> TRUE]
            ELSE LoadParts(PutChild(tree, node, parts[i], FileNode(rd.content)),
                           node, parts, i + 1, info, arch)
    ELSE LET t == IF ~InSeq(parts[i], Children(tree[node]))
                  THEN PutChild(tree, node, parts[i], DirNode)
                  ELSE tree
         IN LoadParts(t, Append(node, parts[i]), parts, i + 1, info, arch)

LoadEntry(tree, info, arch) ==
    LoadParts(tree, <<>>, SplitSlash(RStripSlash(info.filename)), 1, info, arch)

RECURSIVE load_from_zip(_, _, _)
\* the loop over zf.infolist(), left by the first exception
load_from_zip(tree, k, arch) ==
    IF k > Len(arch) THEN [root |-> tree, raised |-> FALSE]
    ELSE LET r == LoadEntry(tree, arch[k], arch)
         IN IF r.raised THEN r ELSE load_from_zip(r.root, k + 1, arch)

-----------------------------------------------------------------------------
(* int(mode, 8) and oct(n) *)

OctDigits == <<"0", "1", "2", "3", "4", "5", "6", "7">>

IsOctDigit(c) == InSeq(c, OctDigits)

DigitValue(c) == (CHOOSE i \in 1..8 : OctDigits[i] = c) - 1

RECURSIVE StripSpaces(_)
\* str.strip() for blanks
StripSpaces(s) ==
    IF Len(s) > 0 /\ s[1] = " " THEN StripSpaces(Tail(s))
    ELSE IF Len(s) > 0 /\ s[Len(s)] = " "
         THEN StripSpaces(SubSeq(s, 1, Len(s) - 1))
    ELSE s

RECURSIVE OctBody(_, _, _)
\* digits, single underscores allowed between them; value -1: not a number
OctBody(s, acc, afterDigit) ==
    IF s = <<>> THEN (IF afterDigit THEN acc ELSE -1)
    ELSE IF IsOctDigit(Head(s))
         THEN OctBody(Tail(s), acc * 8 + DigitValue(Head(s)), TRUE)
    ELSE IF Head(s) = "_" /\ afterDigit THEN OctBody(Tail(s), acc, FALSE)
    ELSE -1

\* int(s, 8): ok = FALSE where it raises ValueError
ParseOctal(s) ==
    LET t == StripSpaces(s)
        signed == Len(t) > 0 /\ t[1] \in {"+", "-"}
        u == IF signed THEN Tail(t) ELSE t
        prefixed == Len(u) >= 2 /\ u[1] = "0" /\ u[2] \in {"o", "O"}
        w == IF prefixed THEN SubSeq(u, 3, Len(u)) ELSE u
        body == IF prefixed /\ Len(w) > 0 /\ w[1] = "_" THEN Tail(w) ELSE w
        v == OctBody(body, 0, FALSE)
    IN IF v < 0 THEN [ok |-> FALSE, value |-> 0]
       ELSE [ok |-> TRUE,
             value |-> IF signed /\ t[1] = "-" THEN 0 - v ELSE v]

RECURSIVE OctDigitsOf(_)
OctDigitsOf(n) ==
    IF n < 8 THEN <<OctDigits[n + 1]>>
    ELSE Append(OctDigitsOf(n \div 8), OctDigits[(n % 8) + 1])

\* oct(n)
Oct(n) ==
    IF n < 0 THEN <<"-", "0", "o">> \o OctDigitsOf(0 - n)
    ELSE <<"0", "o">> \o OctDigitsOf(n)

\* s[-3:]
Last3(s) == IF Len(s) <= 3 THEN s ELSE SubSeq(s, Len(s) - 2, Len(s))

-----------------------------------------------------------------------------
(* The commands of VFS.  Each yields the tree and current path it leaves
   and what it returns: result is "ok" or the kind of the error message,
   out the payload of the message (a sequence). *)

Answer(tree, cur, result, out) ==
    [root |-> tree, current_path |-> cur, result |-> result, out |-> out]

\* one line of the listing
ListLine(name, child) ==
    [typ |-> IF child.type = "dir" THEN "d" ELSE "-",
     perm |-> Last3(Oct(Get(child, "permissions", 0))),
     name |-> name]

\* a listing in the reverse of the stored order
list_dir_reversed(tree, cur, path) ==
    LET target == normalize_path(path, cur)
        node == get_node(tree, target, cur)
    IN IF ~node.found THEN Answer(tree, cur, "NotFound", <<>>)
       ELSE IF tree[node.at].type # "dir"
            THEN Answer(tree, cur, "NotADirectory", <<>>)
       ELSE LET kids == Children(tree[node.at])
                n == Len(kids)
            IN Answer(tree, cur, "ok",
                      [i \in 1..n |->
                          ListLine(kids[n + 1 - i],
                                   tree[Append(node.at, kids[n + 1 - i])])])

list_dir(tree, cur, path) ==
    LET target == normalize_path(path, cur)
        node == get_node(tree, target, cur)
    IN IF ~node.found THEN Answer(tree, cur, "NotFound", <<>>)
       ELSE IF tree[node.at].type # "dir"
            THEN Answer(tree, cur, "NotADirectory", <<>>)
       ELSE LET kids == Children(tree[node.at])
            IN Answer(tree, cur, "ok",
                      [i \in 1..Len(kids) |->
                          ListLine(kids[i], tree[Append(node.at, kids[i])])])

\* change_dir without the check of the node's type
change_dir_any_node(tree, cur, path) ==
    LET target == normalize_path(path, cur)
        node == get_node(tree, target, cur)
    IN IF ~node.found THEN Answer(tree, cur, "NotFound", <<>>)
       ELSE Answer(tree, target, "ok", target)

\* change_dir falling back to the root when the path is not found
change_dir_resets(tree, cur, path) ==
    LET target == normalize_path(path, cur)
        node == get_node(tree, target, cur)
    IN IF ~node.found THEN Answer(tree, <<"/">>, "NotFound", <<>>)
       ELSE IF tree[node.at].type # "dir"
            THEN Answer(tree, cur, "NotADirectory", <<>>)
       ELSE Answer(tree, target, "ok", target)

change_dir(tree, cur, path) ==
    LET target == normalize_path(path, cur)
        node == get_node(tree, target, cur)
    IN IF ~node.found THEN Answer(tree, cur, "NotFound", <<>>)
       ELSE IF tree[node.at].type # "dir"
            THEN Answer(tree, cur, "NotADirectory", <<>>)
       ELSE Answer(tree, target, "ok", target)

\* cat_file without the check of the node's type
cat_file_any_node(tree, cur, path) ==
    LET target == normalize_path(path, cur)
        node == get_node(tree, target, cur)
    IN IF ~node.found THEN Answer(tree, cur, "NotFound", <<>>)
       ELSE Answer(tree, cur, "ok", Get(tree[node.at], "content", <<>>))

cat_file(tree, cur, path) ==
    LET target == normalize_path(path, cur)
        node == get_node(tree, target, cur)
    IN IF ~node.found THEN Answer(tree, cur, "NotFound", <<>>)
       ELSE IF tree[node.at].type # "file"
            THEN Answer(tree, cur, "NotAFile", <<>>)
       ELSE LET content == Get(tree[node.at], "content", <<>>)
                raw == B64Decode(content)
                text == Utf8Decode(raw.bytes)
            IN IF raw.ok /\ text.ok
               THEN Answer(tree, cur, "ok", text.text)
               ELSE Answer(tree, cur, "ok", content)

\* a mode is a str (isStr, text) or an int (num)
StrMode(s) == [isStr |-> TRUE, text |-> s, num |-> 0]
IntMode(n) == [isStr |-> FALSE, text |-> <<>>, num |-> n]

\* a chmod that applies the mode to the node and to everything below it
chmod_recursive(tree, cur, mode, path) ==
    LET target == normalize_path(path, cur)
        node == get_node(tree, target, cur)
        parsed == IF mode.isStr THEN ParseOctal(mode.text)
                  ELSE [ok |-> TRUE, value |-> mode.num]
    IN IF ~node.found THEN Answer(tree, cur, "NotFound", <<>>)
       ELSE IF ~parsed.ok THEN Answer(tree, cur, "InvalidMode", <<>>)
       ELSE Answer([k \in DOMAIN tree |->
                       IF IsPrefix(node.at, k)
                       THEN SetKey(tree[k], "permissions", parsed.value)
                       ELSE tree[k]],
                   cur, "ok", <<parsed.value>>)

\* a chmod that adds the mode to the bits already set
chmod_adds(tree, cur, mode, path) ==
    LET target == normalize_path(path, cur)
        node == get_node(tree, target, cur)
        parsed == IF mode.isStr THEN ParseOctal(mode.text)
                  ELSE [ok |-> TRUE, value |-> mode.num]
    IN IF ~node.found THEN Answer(tree, cur, "NotFound", <<>>)
       ELSE IF ~parsed.ok THEN Answer(tree, cur, "InvalidMode", <<>>)
       ELSE LET v == (Get(tree[node.at], "permissions", 0) + parsed.value)
                         % 512
            IN Answer([tree EXCEPT ![node.at] = SetKey(@, "permissions", v)],
                      cur, "ok", <<v>>)

chmod(tree, cur, mode, path) ==
    LET target == normalize_path(path, cur)
        node == get_node(tree, target, cur)
        parsed == IF mode.isStr THEN ParseOctal(mode.text)
                  ELSE [ok |-> TRUE, value |-> mode.num]
    IN IF ~node.found THEN Answer(tree, cur, "NotFound", <<>>)
       ELSE IF ~parsed.ok THEN Answer(tree, cur, "InvalidMode", <<>>)
       ELSE Answer([tree EXCEPT ![node.at] =
                        SetKey(@, "permissions", parsed.value)],
                   cur, "ok", <<parsed.value>>)

-----------------------------------------------------------------------------
(* Inputs *)

Hi == <<72, 105>>
EAcute == <<195, 169>>
NotText == <<255>>

FileEntry(name, content) ==
    [filename |-> name, content |-> content, unreadable |-> FALSE]
BadEntry(name) == [filename |-> name, content |-> <<>>, unreadable |-> TRUE]
DirEntry(name) == [filename |-> name, content |-> <<>>, unreadable |-> FALSE]

\* the archives a session is started on
SessionArchives ==
    { <<>>,
      <<DirEntry(<<"a", "/">>), FileEntry(<<"a", "/", "b">>, Hi)>>,
      <<FileEntry(<<"b">>, NotText), FileEntry(<<"b", "/", "a">>, EAcute)>>,
      <<FileEntry(<<"a", "/", "a">>, Hi), FileEntry(<<"b">>, NotText)>>,
      <<FileEntry(<<"a", "/", "b">>, Hi), BadEntry(<<"b", "/", "a">>)>>,
      <<FileEntry(<<"a">>, Hi), DirEntry(<<"a", "/", "b", "/">>)>> }

\* the entries of the archives of the import-only specification
ImportEntries ==
    { DirEntry(<<"a", "/">>), DirEntry(<<"a", "/", "b", "/">>) }
    \cup { FileEntry(n, c) :
             n \in {<<"a">>, <<"a", "/", "b">>, <<"b">>}, c \in {Hi, NotText} }
    \cup { BadEntry(n) : n \in {<<"a">>, <<"a", "/", "b">>, <<"b">>} }

ImportArchives == UNION { [1..k -> ImportEntries] : k \in 0..MaxEntries }

\* path arguments of the commands
PathArgs ==
    { <<".">>, <<".", ".">>, <<"/">>, <<"a">>, <<"b">>,
      <<"/", "a", "/", "b">>, <<"/", "b", "/", "a">> }

\* mode arguments of chmod
ModeArgs ==
    { StrMode(<<"7", "0", "0">>), StrMode(<<"1", "0", "0", "0">>),
      StrMode(<<"a", "b", "c">>), IntMode(512) }

\* inputs of normalize_path
NormAlphabet == {"/", ".", "a", "b"}
ExamplePaths ==
    { <<"/", "a", "/", "b", "/", ".", ".", "/", "c">>,
      <<".", ".", "/", ".", ".", "/", "x">> }
NormPaths ==
    UNION { [1..k -> NormAlphabet] : k \in 0..MaxPathLen } \cup ExamplePaths
NormCurrents ==
    { <<"/">>, <<"/", "a">>, <<"/", "a", "/", "b">>, <<"/", "b", ".", "a">> }

-----------------------------------------------------------------------------
(* The session *)

NoCommand ==
    [op |-> "none", path |-> <<>>, mode |-> StrMode(<<>>),
     result |-> "ok", out |-> <<>>]

NormIdle == npPath = <<>> /\ npCur = <<"/">> /\ npOut = <<>>

\* ShellEmulator.__init__ without a startup script, before any command
ShellIdle ==
    /\ running = TRUE
    /\ logs = <<>>
    /\ history = <<>>
    /\ script = <<>>
    /\ pc = "interactive"

\* VFS.__init__, before ShellEmulator.__init__ loads the archive
InitVfs ==
    /\ root = EmptyRoot
    /\ current_path = <<"/">>
    /\ phase = "init"
    /\ loaded = FALSE
    /\ last = NoCommand

Init ==
    /\ InitVfs
    /\ archive \in SessionArchives
    /\ NormIdle
    /\ ShellIdle

\* ShellEmulator.load_vfs -> VFS.load_from_zip
load_vfs ==
    /\ phase = "init"
    /\ LET r == load_from_zip(root, 1, archive)
       IN /\ root' = r.root
          /\ loaded' = ~r.raised
    /\ phase' = "ready"
    /\ UNCHANGED <<current_path, archive, last, npVars, shellVars>>

Apply(op, path, mode, ans) ==
    /\ root' = ans.root
    /\ current_path' = ans.current_path
    /\ last' = [op |-> op, path |-> path, mode |-> mode,
                result |-> ans.result, out |-> ans.out]
    /\ UNCHANGED <<phase, archive, loaded, npVars, shellVars>>

CmdLs ==
    /\ phase = "ready"
    /\ \E path \in PathArgs :
          Apply("ls", path, StrMode(<<>>), list_dir(root, current_path, path))

CmdCd ==
    /\ phase = "ready"
    /\ \E path \in PathArgs :
          Apply("cd", path, StrMode(<<>>),
                change_dir(root, current_path, path))

CmdCat ==
    /\ phase = "ready"
    /\ \E path \in PathArgs :
          Apply("cat", path, StrMode(<<>>), cat_file(root, current_path, path))

CmdChmod ==
    /\ phase = "ready"
    /\ \E mode \in ModeArgs, path \in PathArgs :
          Apply("chmod", path, mode, chmod(root, current_path, mode, path))

Next == load_vfs \/ CmdLs \/ CmdCd \/ CmdCat \/ CmdChmod

Spec == Init /\ [][Next]_vars

-----------------------------------------------------------------------------
(* Import alone, over every archive of up to MaxEntries entries *)

InitImport ==
    /\ InitVfs
    /\ archive \in ImportArchives
    /\ NormIdle
    /\ ShellIdle

NextImport == load_vfs

SpecImport == InitImport /\ [][NextImport]_vars

-----------------------------------------------------------------------------
(* normalize_path alone, over every path string of up to MaxPathLen
   characters *)

InitNorm ==
    /\ InitVfs
    /\ archive = <<>>
    /\ npPath \in NormPaths
    /\ npCur \in NormCurrents
    /\ npOut = <<>>
    /\ ShellIdle

Normalize ==
    /\ npOut = <<>>
    /\ npOut' = normalize_path(npPath, npCur)
    /\ UNCHANGED <<vfsVars, npPath, npCur, shellVars>>

NextNorm == Normalize

SpecNorm == InitNorm /\ [][NextNorm]_vars

-----------------------------------------------------------------------------
(* ls and chmod alone, on one archive whose directory "a" gets its children
   in the order b, a, with modes of two and of three digits *)

PermArchives ==
    { <<DirEntry(<<"a", "/">>), FileEntry(<<"a", "/", "b">>, Hi),
        FileEntry(<<"a", "/", "a">>, Hi)>> }

PermPathArgs ==
    { <<"/">>, <<"/", "a">>, <<"/", "a", "/", "b">>, <<"/", "a", "/", "a">>,
      <<"/", "x">> }

PermModeArgs ==
    { StrMode(<<"7", "0", "0">>), StrMode(<<"7", "0">>), StrMode(<<"a", "b", "c">>) }

InitPerm ==
    /\ InitVfs
    /\ archive \in PermArchives
    /\ NormIdle
    /\ ShellIdle

PermLs ==
    /\ phase = "ready"
    /\ \E path \in PermPathArgs :
          Apply("ls", path, StrMode(<<>>), list_dir(root, current_path, path))

PermChmod ==
    /\ phase = "ready"
    /\ \E mode \in PermModeArgs, path \in PermPathArgs :
          Apply("chmod", path, mode, chmod(root, current_path, mode, path))

NextPerm == load_vfs \/ PermLs \/ PermChmod

SpecPerm == InitPerm /\ [][NextPerm]_vars

-----------------------------------------------------------------------------
(* The dispatcher: ShellEmulator.execute_command, the startup script and
   the interactive loop.  A command line is a string; the timestamp of a
   log entry is left out, the clock not being part of the state. *)

\* the interactive loop reads commands while the log has fewer entries
MaxLog == 3

\* most lines of a startup script
MaxScript == 2

ExitWord == <<"e", "x", "i", "t">>
LsWord == <<"l", "s">>
CdWord == <<"c", "d">>
WhoamiWord == <<"w", "h", "o", "a", "m", "i">>
DateWord == <<"d", "a", "t", "e">>
CatWord == <<"c", "a", "t">>
ChmodWord == <<"c", "h", "m", "o", "d">>

DollarHome == <<"$", "H", "O", "M", "E">>

\* os.path.expanduser("~") of the sessions modelled
HomeDir == <<"/", "a">>

\* os.getlogin() of the sessions modelled, when it does not raise
LoginName == <<"u">>

RECURSIVE expand_env_vars(_)
\* str.replace("$HOME", home)
expand_env_vars(text) ==
    IF text = <<>> THEN <<>>
    ELSE IF Len(text) >= Len(DollarHome)
            /\ SubSeq(text, 1, Len(DollarHome)) = DollarHome
         THEN HomeDir
              \o expand_env_vars(SubSeq(text, Len(DollarHome) + 1, Len(text)))
    ELSE <<Head(text)>> \o expand_env_vars(Tail(text))

RECURSIVE SplitBlanks(_, _, _)
\* the words of a line that has no quote and no backslash
SplitBlanks(s, word, acc) ==
    IF s = <<>> THEN (IF word = <<>> THEN acc ELSE Append(acc, word))
    ELSE IF Head(s) = " "
         THEN SplitBlanks(Tail(s), <<>>,
                          IF word = <<>> THEN acc ELSE Append(acc, word))
    ELSE SplitBlanks(Tail(s), Append(word, Head(s)), acc)

parse_input(user_input) == SplitBlanks(user_input, <<>>, <<>>)

\* a branch of execute_command: what the command returns and leaves, whether
\* it cleared self.running, whether log_entry["error"] was assigned
Branch(ans, stop, error) == [ans |-> ans, stop |-> stop, error |-> error]

\* a mutation of Caught: a command that raises ends the session
CaughtStops(tree, cur) ==
    Branch(Answer(tree, cur, "Exception", <<>>), TRUE, TRUE)

\* the except clause of execute_command: the exception becomes the result
\* and the error of the log entry
Caught(tree, cur) ==
    Branch(Answer(tree, cur, "Exception", <<>>), FALSE, TRUE)

\* the try block of execute_command with its except clause
Dispatch(tree, cur, cmd, args, loginRaises) ==
    IF cmd = ExitWord
    THEN Branch(Answer(tree, cur, "ok", <<>>), TRUE, FALSE)
    ELSE IF cmd = LsWord
    THEN Branch(list_dir(tree, cur, IF args # <<>> THEN args[1] ELSE <<".">>),
                FALSE, FALSE)
    ELSE IF cmd = CdWord
    THEN Branch(change_dir(tree, cur,
                           IF args # <<>> THEN args[1] ELSE <<"/">>),
                FALSE, FALSE)
    ELSE IF cmd = WhoamiWord
    THEN IF loginRaises
         THEN Caught(tree, cur)
         ELSE Branch(Answer(tree, cur, "ok", LoginName), FALSE, FALSE)
    ELSE IF cmd = DateWord
    THEN Branch(Answer(tree, cur, "ok", <<>>), FALSE, FALSE)
    ELSE IF cmd = CatWord
    THEN IF args = <<>>
         THEN Branch(Answer(tree, cur, "MissingArgument", <<>>), FALSE, FALSE)
         ELSE Branch(cat_file(tree, cur, args[1]), FALSE, FALSE)
    ELSE IF cmd = ChmodWord
    THEN IF Len(args) < 2
         THEN Branch(Answer(tree, cur, "MissingArgument", <<>>), FALSE, FALSE)
         ELSE Branch(chmod(tree, cur, StrMode(args[1]), args[2]),
                     FALSE, FALSE)
    ELSE Branch(Answer(tree, cur, "UnknownCommand", <<>>), FALSE, TRUE)

\* the command just run, as the variable last records it
LastOf(cmd, args, ans) ==
    [op |-> CASE cmd = ExitWord -> "exit"
              [] cmd = LsWord -> "ls"
              [] cmd = CdWord -> "cd"
              [] cmd = WhoamiWord -> "whoami"
              [] cmd = DateWord -> "date"
              [] cmd = CatWord -> "cat"
              [] cmd = ChmodWord -> "chmod"
              [] OTHER -> "unknown",
     path |-> IF cmd = ChmodWord /\ Len(args) >= 2 THEN args[2]
              ELSE IF cmd \in {LsWord, CdWord, CatWord} /\ args # <<>>
                   THEN args[1]
              ELSE <<>>,
     mode |-> IF cmd = ChmodWord /\ Len(args) >= 2 THEN StrMode(args[1])
              ELSE StrMode(<<>>),
     result |-> ans.result,
     out |-> ans.out]

\* the end of execute_command for a command that went through the try
\* block as b: the log entry, the history item and the value returned
Outcome(run, user_input, cmd, args, b) ==
    [root |-> b.ans.root,
     current_path |-> b.ans.current_path,
     running |-> IF b.stop THEN FALSE ELSE run,
     logged |-> TRUE,
     entry |-> [command |-> cmd, args |-> args,
                error |-> IF b.error THEN b.ans.result ELSE "None"],
     input |-> user_input,
     last |-> LastOf(cmd, args, b.ans)]

\* execute_command after the line was expanded and split: an empty line
\* returns before anything is logged
Parsed(tree, cur, run, user_input, parts, loginRaises) ==
    IF parts = <<>>
    THEN [root |-> tree, current_path |-> cur, running |-> run,
          logged |-> FALSE, entry |-> <<>>, input |-> user_input,
          last |-> NoCommand]
    ELSE Outcome(run, user_input, Head(parts), Tail(parts),
                 Dispatch(tree, cur, Head(parts), Tail(parts), loginRaises))

\* ShellEmulator.execute_command: the tree, current path and running flag it
\* leaves, whether it got as far as logging, the log entry and the history
\* item it appends
execute_command(tree, cur, run, input, loginRaises) ==
    Parsed(tree, cur, run, expand_env_vars(input),
           parse_input(expand_env_vars(input)), loginRaises)

\* Logger.log: the entry is appended to self.logs (a failure to write the
\* log file is ignored)
log(entries, entry) == Append(entries, entry)

\* lines of the startup scripts: exit, a cd that fails, a comment, ls
ScriptLines ==
    { ExitWord,
      CdWord \o <<" ", "/", "x">>,
      <<"#", " ", "c">>,
      LsWord }

\* lines typed into the interactive loop
InputLines ==
    { ExitWord,
      LsWord \o <<" ", "a", "/", "b">>,
      CdWord \o <<" ", "/", "x">>,
      CdWord \o <<" ">> \o DollarHome,
      CatWord,
      CatWord \o <<" ", "a">>,
      CatWord \o <<" ", "/", "a", "/", "b">>,
      ChmodWord \o <<" ", "a", "b", "c", " ", "a">>,
      ChmodWord \o <<" ", "7", "0", "0">>,
      WhoamiWord,
      DateWord,
      <<"f", "o", "o">>,
      <<" ">> }

Scripts ==
    UNION { [1..n -> ScriptLines] : n \in 0..MaxScript }

\* ShellEmulator.__init__ up to the loading of the archive
InitShell ==
    /\ InitVfs
    /\ archive \in PermArchives
    /\ NormIdle
    /\ running = TRUE
    /\ logs = <<>>
    /\ history = <<>>
    /\ script \in Scripts
    /\ pc = "startup"

\* what a call of execute_command that returned r leaves of the session
Effect(r) ==
    /\ root' = r.root
    /\ current_path' = r.current_path
    /\ running' = r.running
    /\ logs' = IF r.logged THEN log(logs, r.entry) ELSE logs
    /\ history' = IF r.logged THEN Append(history, r.input) ELSE history
    /\ last' = IF r.logged THEN r.last ELSE last
    /\ UNCHANGED <<phase, archive, loaded, npVars>>

\* one call of execute_command
Execute(line, loginRaises) ==
    Effect(execute_command(root, current_path, running, line, loginRaises))

\* one pass of the loop of run_startup_script: blank lines and comments are
\* skipped, every other line is executed
run_startup_script ==
    /\ phase = "ready"
    /\ pc = "startup"
    /\ script # <<>>
    /\ LET line == StripSpaces(Head(script))
       IN IF line = <<>> \/ Head(line) = "#"
          THEN UNCHANGED <<vfsVars, npVars, running, logs, history>>
          ELSE \E loginRaises \in BOOLEAN : Execute(line, loginRaises)
    /\ script' = Tail(script)
    /\ pc' = pc

\* the startup script is at its end: main calls run_interactive
startup_done ==
    /\ phase = "ready"
    /\ pc = "startup"
    /\ script = <<>>
    /\ pc' = "interactive"
    /\ UNCHANGED <<vfsVars, npVars, running, logs, history, script>>

\* one pass of the loop of run_interactive that reads a line
run_interactive ==
    /\ pc = "interactive"
    /\ running
    /\ Len(logs) < MaxLog
    /\ \E typed \in InputLines, loginRaises \in BOOLEAN :
          LET user_input == StripSpaces(typed)
          IN IF user_input = <<>>
             THEN UNCHANGED <<vfsVars, npVars, running, logs, history>>
             ELSE Execute(user_input, loginRaises)
    /\ UNCHANGED <<script, pc>>

\* input() raises EOFError or KeyboardInterrupt: the loop is left
end_of_input ==
    /\ pc = "interactive"
    /\ running
    /\ pc' = "ended"
    /\ UNCHANGED <<vfsVars, npVars, running, logs, history, script>>

\* while self.running fails: the loop is left
loop_exit ==
    /\ pc = "interactive"
    /\ ~running
    /\ pc' = "ended"
    /\ UNCHANGED <<vfsVars, npVars, running, logs, history, script>>

NextShell ==
    \/ load_vfs
    \/ run_startup_script
    \/ startup_done
    \/ run_interactive
    \/ end_of_input
    \/ loop_exit

SpecShell == InitShell /\ [][NextShell]_vars

-----------------------------------------------------------------------------
(* Properties *)

RootPath == <<"/">>

\* an absolute path with no empty, "." or ".." segment and no trailing slash,
\* or "/" itself
IsCanonical(p) ==
    /\ StartsWithSlash(p)
    /\ \/ p = RootPath
       \/ /\ ~EndsWithSlash(p)
          /\ \A i \in 1..Len(SplitSlash(Tail(p))) :
                SplitSlash(Tail(p))[i] \notin {<<>>, <<".">>, <<".", ".">>}

\* the key path a canonical path names
KeyOf(p) == SelectSeq(SplitSlash(p), NotEmpty)

Exists(tree, p) == KeyOf(p) \in DOMAIN tree

IsDirAt(tree, p) == Exists(tree, p) /\ tree[KeyOf(p)].type = "dir"

IsFileAt(tree, p) == Exists(tree, p) /\ tree[KeyOf(p)].type = "file"

\* C1: in every state of a session, before and after the import and after
\* any sequence of ls, cd, cat and chmod, current_path is a canonical
\* absolute path that names an existing node of type "dir".
C1_CurrentPathIsDirectory ==
    IsCanonical(current_path) /\ IsDirAt(root, current_path)

\* a cd has succeeded into a directory other than the root
C1_Witness ==
    /\ last.op = "cd"
    /\ last.result = "ok"
    /\ current_path # RootPath
    /\ IsDirAt(root, current_path)

\* C2: a cd whose resolved path is missing returns NotFound, one whose
\* resolved path is a file returns NotADirectory, and both leave
\* current_path and the rest of the session as they were; a cd to a
\* directory sets current_path to the normalized path, resolved against the
\* previous current_path, and changes nothing else.
C2_ChangeDirEffect ==
    [][ (phase = "ready" /\ last'.op = "cd") =>
          LET target == normalize_path(last'.path, current_path)
          IN /\ UNCHANGED <<root, phase, archive, loaded>>
             /\ ~Exists(root, target) =>
                   last'.result = "NotFound" /\ current_path' = current_path
             /\ IsFileAt(root, target) =>
                   last'.result = "NotADirectory"
                   /\ current_path' = current_path
             /\ IsDirAt(root, target) =>
                   last'.result = "ok" /\ current_path' = target ]_vars

\* a cd has failed while the current directory was not the root
C2_Witness ==
    /\ last.op = "cd"
    /\ last.result \in {"NotFound", "NotADirectory"}
    /\ current_path # RootPath

\* 0o777
MaxPerm == 8 * 8 * 8 - 1

HasPermission(n) == "permissions" \in DOMAIN n

\* C3 (as claimed): the permission stored on every node is in 0..0o777.
C3_PermissionsInRange ==
    \A k \in DOMAIN root :
        HasPermission(root[k]) =>
            root[k].permissions >= 0 /\ root[k].permissions <= MaxPerm

\* the modes the specification accepts: a string of octal digits, or an
\* integer, with a value in 0..0o777
ValidMode(m) ==
    IF m.isStr
    THEN /\ Len(m.text) > 0
         /\ \A i \in 1..Len(m.text) : IsOctDigit(m.text[i])
         /\ ParseOctal(m.text).value <= MaxPerm
    ELSE m.num >= 0 /\ m.num <= MaxPerm

\* C4 (as claimed): chmod on an existing path with a mode that is not a
\* string of octal digits, or whose value is outside 0..0o777, returns
\* InvalidMode and leaves every node's permission unchanged.
C4_InvalidModeRejected ==
    [][ ( /\ phase = "ready"
          /\ last'.op = "chmod"
          /\ Exists(root, normalize_path(last'.path, current_path))
          /\ ~ValidMode(last'.mode) ) =>
        (last'.result = "InvalidMode" /\ root' = root) ]_vars

\* C5 (as claimed): when the import fails part-way, the tree the session
\* goes on with holds none of the nodes of the entries processed before the
\* failure.
C5_ImportAllOrNothing ==
    (phase = "ready" /\ ~loaded) => root = EmptyRoot

\* C6 (as claimed): cat on the path of an imported file entry returns the
\* entry's bytes exactly (compared value by value with what cat returns).
C6_ReadReturnsRawBytes ==
    (phase = "ready" /\ last.op = "cat") =>
        \A i \in 1..Len(archive) :
            ( /\ ~IsDirEntry(archive[i])
              /\ ~archive[i].unreadable
              /\ RootPath \o archive[i].filename
                    = normalize_path(last.path, current_path)
              /\ IsFileAt(root, RootPath \o archive[i].filename) ) =>
            (last.result = "ok" /\ last.out = archive[i].content)

EntryParts(info) == SplitSlash(RStripSlash(info.filename))

PathOf(key) == IF key = <<>> THEN RootPath ELSE RootPath \o JoinSlash(key)

\* the entry's name resolves to a node of its kind, and every proper prefix
\* of the name to a directory with permission 0o755
EntryImported(tree, info) ==
    LET parts == EntryParts(info)
        node == get_node(tree, PathOf(parts), RootPath)
    IN /\ \A n \in 1..(Len(parts) - 1) :
             LET dir == get_node(tree, PathOf(SubSeq(parts, 1, n)), RootPath)
             IN /\ dir.found
                /\ tree[dir.at].type = "dir"
                /\ HasPermission(tree[dir.at])
                /\ tree[dir.at].permissions = Perm755
       /\ node.found
       /\ IF IsDirEntry(info) THEN tree[node.at].type = "dir"
          ELSE /\ tree[node.at].type = "file"
               /\ tree[node.at].permissions = Perm644

\* C7 (as claimed): after a successful import of any sequence of entries,
\* every entry is imported as EntryImported says.
C7_EveryEntryImported ==
    (phase = "ready" /\ loaded) =>
        \A i \in 1..Len(archive) : EntryImported(root, archive[i])

\* no file entry's name is also the name of a directory entry or a proper
\* prefix of another entry's name
ConflictFree(arch) ==
    \A i, j \in 1..Len(arch) :
        (i # j /\ ~IsDirEntry(arch[i])
         /\ IsPrefix(EntryParts(arch[i]), EntryParts(arch[j]))) =>
        (EntryParts(arch[i]) = EntryParts(arch[j]) /\ ~IsDirEntry(arch[j]))

\* no entry name has an empty, "." or ".." segment
PlainNames(arch) ==
    \A i \in 1..Len(arch) :
        \A n \in 1..Len(EntryParts(arch[i])) :
            EntryParts(arch[i])[n] \notin {<<>>, <<".">>, <<".", ".">>}

\* C7 (amended): after a successful import of a sequence of entries whose
\* names have no empty, "." or ".." segment and in which no file entry's
\* name is also a directory entry's name or a proper prefix of another
\* entry's name, every entry is imported as EntryImported says.
C7_ConsistentEntriesImported ==
    (phase = "ready" /\ loaded /\ ConflictFree(archive) /\ PlainNames(archive))
        => \A i \in 1..Len(archive) : EntryImported(root, archive[i])

\* a file whose parent directory has no entry of its own before it, followed
\* by a directory entry
C7_Witness ==
    /\ phase = "ready" /\ loaded
    /\ ConflictFree(archive) /\ PlainNames(archive)
    /\ Len(archive) >= 2
    /\ archive[1].filename = <<"a", "/", "b">>
    /\ IsDirEntry(archive[2])
    /\ IsDirAt(root, <<"/", "a">>)

\* key paths looked up besides those of the tree
ProbeKeys == { <<<<"b">>>>, <<<<"a">>, <<"b">>>>, <<<<"b">>, <<"a">>>>,
               <<<<"a">>, <<"b">>, <<"a">>>> }

\* C8 (as claimed): in every tree the import produces, the lookup of a
\* canonical path finds nothing when a segment is missing or when a node
\* that is not a directory is reached before the last segment.
C8_LookupNeverThroughFile ==
    phase = "ready" =>
        \A k \in DOMAIN root \cup ProbeKeys :
            ( /\ IsCanonical(PathOf(k))
              /\ \/ k \notin DOMAIN root
                 \/ \E n \in 0..(Len(k) - 1) :
                       root[SubSeq(k, 1, n)].type # "dir" ) =>
            ~get_node(root, PathOf(k), RootPath).found

\* C9: normalize_path of any path string against any canonical current
\* directory is canonical: it starts with "/", has no empty, "." or ".."
\* segment, and no trailing slash unless it is exactly "/".
C9_NormalizeIsCanonical ==
    (npOut # <<>> /\ IsCanonical(npCur)) => IsCanonical(npOut)

\* a relative path with "..", "." and a trailing slash has been normalized
\* against a directory below the root
C9_Witness ==
    /\ npOut # <<>>
    /\ npCur = <<"/", "a", "/", "b">>
    /\ npPath = <<".", ".", "/", ".", "/">>
    /\ npOut = <<"/", "a">>

Parent(p) ==
    LET key == KeyOf(p)
    IN IF key = <<>> THEN RootPath
       ELSE PathOf(SubSeq(key, 1, Len(key) - 1))

\* C10: a path that starts with "/" is normalized alike against every
\* current directory; any other path is normalized as the current
\* directory, "/" and the path; a further "/.." segment removes the last
\* segment of the result, or nothing when the result is "/"; a further
\* name is appended; and the two examples come out as "/a/c" and "/x".
C10_NormalizeLeftToRight ==
    npOut # <<>> =>
        /\ StartsWithSlash(npPath) =>
              \A c \in NormCurrents : normalize_path(npPath, c) = npOut
        /\ ~StartsWithSlash(npPath) =>
              npOut = normalize_path(npCur \o <<"/">> \o npPath, RootPath)
        /\ npPath # <<>> =>
              /\ normalize_path(npPath \o <<"/", ".", ".">>, npCur)
                    = Parent(npOut)
              /\ normalize_path(npPath \o <<"/", "x">>, npCur)
                    = PathOf(Append(KeyOf(npOut), <<"x">>))
        /\ npPath = <<"/", "a", "/", "b", "/", ".", ".", "/", "c">> =>
              npOut = <<"/", "a", "/", "c">>
        /\ (npPath = <<".", ".", "/", ".", ".", "/", "x">>
            /\ npCur = <<"/", "a">>) => npOut = <<"/", "x">>

\* "../../x" has been normalized against "/a": one ".." more than there
\* are segments to remove
C10_Witness ==
    /\ npPath = <<".", ".", "/", ".", ".", "/", "x">>
    /\ npCur = <<"/", "a">>
    /\ npOut = <<"/", "x">>

\* everything of a node but its permission
SameButPermission(n, m) ==
    /\ DOMAIN n \ {"permissions"} = DOMAIN m \ {"permissions"}
    /\ \A f \in DOMAIN n \ {"permissions"} : n[f] = m[f]

\* C11: after the import no ls, cd, cat or chmod creates, removes, renames
\* or retypes a node or changes a file's content: ls and cat change nothing,
\* cd changes only current_path, a chmod that fails changes nothing and one
\* that succeeds changes only the permission of the node its path names.
C11_OnlyPermissionsChange ==
    [][ phase = "ready" =>
          LET target == KeyOf(normalize_path(last'.path, current_path))
          IN /\ DOMAIN root' = DOMAIN root
             /\ \A k \in DOMAIN root : SameButPermission(root[k], root'[k])
             /\ last'.op \in {"ls", "cat"} =>
                   root' = root /\ current_path' = current_path
             /\ last'.op = "cd" => root' = root
             /\ last'.op = "chmod" =>
                   /\ current_path' = current_path
                   /\ \A k \in DOMAIN root \ {target} : root'[k] = root[k]
                   /\ last'.result # "ok" => root' = root ]_vars

\* a chmod has changed the permission of a directory that has a child
C11_Witness ==
    /\ last.op = "chmod"
    /\ last.result = "ok"
    /\ \E k \in DOMAIN root :
          /\ k # <<>>
          /\ Children(root[k]) # <<>>
          /\ root[k].permissions \notin {Perm644, Perm755}
          /\ root[Append(k, Children(root[k])[1])].permissions
                \in {Perm644, Perm755}

RECURSIVE FirstNames(_, _, _)
\* the names that entries of the archive put right below the directory at
\* key, in the order of their first appearance
FirstNames(arch, key, acc) ==
    IF arch = <<>> THEN acc
    ELSE LET parts == EntryParts(Head(arch))
             here == IsPrefix(key, parts) /\ Len(parts) > Len(key)
         IN FirstNames(Tail(arch), key,
                       IF here /\ ~InSeq(parts[Len(key) + 1], acc)
                       THEN Append(acc, parts[Len(key) + 1])
                       ELSE acc)

ChildKeys(tree, key) ==
    {k \in DOMAIN tree : Len(k) = Len(key) + 1 /\ IsPrefix(key, k)}

ModeValue(m) == IF m.isStr THEN ParseOctal(m.text).value ELSE m.num

\* the number a permission shown in a listing denotes, -1 when it denotes none
ShownPermission(t) ==
    IF ParseOctal(t).ok THEN ParseOctal(t).value ELSE -1

\* C13 (as claimed): after a successful chmod of a path with a valid mode m,
\* the listing of the path's parent directory shows m for the path's entry
\* and, for every sibling, the entry it showed before.
C13_ListShowsNewPermission ==
    [][ ( /\ phase = "ready"
          /\ last'.op = "chmod"
          /\ last'.result = "ok"
          /\ ValidMode(last'.mode)
          /\ normalize_path(last'.path, current_path) # RootPath ) =>
        LET target == normalize_path(last'.path, current_path)
            key == KeyOf(target)
            before == list_dir(root, current_path, Parent(target))
            after == list_dir(root', current_path', Parent(target))
        IN /\ after.result = "ok"
           /\ Len(after.out) = Len(before.out)
           /\ \A i \in 1..Len(after.out) :
                 IF after.out[i].name = key[Len(key)]
                 THEN ShownPermission(after.out[i].perm)
                         = ModeValue(last'.mode)
                 ELSE after.out[i] = before.out[i] ]_vars

\* C14: chmod is idempotent: applied again with the same mode and path to
\* the state it left, it returns the same result and leaves the same tree
\* and current path.
C14_ChmodIdempotent ==
    [][ (phase = "ready" /\ last'.op = "chmod") =>
          chmod(root', current_path', last'.mode, last'.path)
             = Answer(root', current_path', last'.result, last'.out) ]_vars

\* a chmod has changed the permission of the file /a/b
C14_Witness ==
    /\ last.op = "chmod"
    /\ last.result = "ok"
    /\ last.path = <<"/", "a", "/", "b">>
    /\ root[<<<<"a">>, <<"b">>>>].permissions # Perm644

\* C17: cat returns NotFound when the resolved path is missing, NotAFile
\* when it is a directory (the root and the current directory included),
\* and succeeds only when it is a file; in every case the tree, the current
\* path and the rest of the session are left as they were.
C17_CatFileErrors ==
    [][ (phase = "ready" /\ last'.op = "cat") =>
          LET target == normalize_path(last'.path, current_path)
          IN /\ UNCHANGED <<root, current_path, phase, archive, loaded>>
             /\ ~Exists(root, target) => last'.result = "NotFound"
             /\ IsDirAt(root, target) => last'.result = "NotAFile"
             /\ IsFileAt(root, target) => last'.result = "ok" ]_vars

\* cat of "." has been refused in a directory below the root
C17_Witness ==
    /\ last.op = "cat"
    /\ last.result = "NotAFile"
    /\ last.path = <<".">>
    /\ current_path # RootPath

\* C18 (as claimed): chmod checks the mode before it resolves the path: with
\* a mode that is not valid it returns InvalidMode even when the path is
\* missing, and it returns NotFound only when the mode is valid.
C18_ModeCheckedBeforePath ==
    [][ (phase = "ready" /\ last'.op = "chmod"
         /\ ~Exists(root, normalize_path(last'.path, current_path))) =>
          /\ ~ValidMode(last'.mode) => last'.result = "InvalidMode"
          /\ last'.result = "NotFound" => ValidMode(last'.mode) ]_vars

\* the tree lookups are tried on
SampleTree ==
    load_from_zip(EmptyRoot, 1, CHOOSE a \in PermArchives : TRUE).root

\* C20: normalize_path is idempotent on its own output, whatever the
\* current directory of the second call, so that get_node, which normalizes
\* again, reaches from every current directory the node the normalized
\* path names.
C20_NormalizeIdempotent ==
    npOut # <<>> =>
        \A c \in NormCurrents :
            /\ normalize_path(npOut, c) = npOut
            /\ get_node(SampleTree, npOut, c)
                  = IF KeyOf(npOut) \in DOMAIN SampleTree
                    THEN [found |-> TRUE, at |-> KeyOf(npOut)]
                    ELSE [found |-> FALSE, at |-> <<>>]

\* a relative path has been normalized, against a directory below the root,
\* to a path other than "/"
C20_Witness ==
    /\ npOut # <<>>
    /\ ~StartsWithSlash(npPath)
    /\ npCur = <<"/", "a">>
    /\ npOut = <<"/", "a", "/", "b">>

\* a step in which the dispatcher has been handed a command
Dispatched == history' # history \/ logs' # logs

\* C15 (as claimed): every command handed to the dispatcher appends exactly
\* one log entry, which carries the command's name and arguments, and the
\* entry's error is set whenever the command ended in an error (NotFound,
\* NotADirectory, NotAFile, InvalidMode, a missing argument, an unknown
\* command, an exception) and is empty only when the command succeeded.
C15_EveryErrorLogged ==
    [][ Dispatched =>
          /\ Len(logs') = Len(logs) + 1
          /\ SubSeq(logs', 1, Len(logs)) = logs
          /\ LET entry == logs'[Len(logs')]
                 parts == parse_input(history'[Len(history')])
             IN /\ entry.command = Head(parts)
                /\ entry.args = Tail(parts)
                /\ (entry.error = "None") <=> (last'.result = "ok") ]_vars

\* C16: no failing command ends the session: a command other than exit,
\* whether it succeeds, returns an error or raises, leaves the running flag
\* as it was, so that a session that was running still is, and the startup
\* script or the interactive loop goes on to its next command.
C16_FailingCommandKeepsRunning ==
    [][ (Dispatched /\ logs'[Len(logs')].command # ExitWord) =>
          /\ running' = running
          /\ pc' = pc
          /\ pc' \in {"startup", "interactive"}
          /\ Len(logs') = Len(logs) + 1 ]_vars

\* the interactive loop has executed a command after one that raised
C16_Witness ==
    /\ Len(logs) = 2
    /\ logs[1].command = WhoamiWord
    /\ logs[1].error = "Exception"
    /\ logs[2].command = CdWord
    /\ last.result = "NotFound"
    /\ running
    /\ pc = "interactive"

ExitExecuted ==
    \E i \in 1..Len(logs) : logs[i].command = ExitWord

\* C19 (as claimed): once an exit command has been executed, no further
\* command is executed in the session, neither from the startup script nor
\* from the interactive loop.
C19_NothingAfterExit ==
    [][ Dispatched => ~ExitExecuted ]_vars

====
